---- MODULE Spec2Model ----
(***************************************************************************)
(* Counterfactual search for isolation forests (ceml.sklearn.isolationforest).*)
(*                                                                         *)
(* Feature vectors are functions over the feature indices with integer     *)
(* coordinates;                                                            *)
(* one unit is the epsilon by which an adjustment moves a coordinate past  *)
(* a split threshold.  A tree is the sklearn node arena: node ids start at *)
(* 0 (the root), children_left = children_right = -1 marks a leaf, and a   *)
(* sample goes left at a node iff x[feature] <= threshold.                 *)
(***************************************************************************)
EXTENDS Integers, Sequences, FiniteSets, TLC

\* ---------------------------------------------------------------- bounds
MaxVal == 2
MaxC == 2

Features == {0, 1}
Vals == 0 .. MaxVal
Vectors == [Features -> Vals]

TREE_LEAF == -1

\* ------------------------------------------------------- fitted trees
Leaf == [feature |-> -2, threshold |-> -2, left |-> TREE_LEAF, right |-> TREE_LEAF]

Split(f, thr, l, r) == [feature |-> f, threshold |-> thr, left |-> l, right |-> r]

\* a chain: leaves at depth 1, 2, 3 and 3
TreeB == << Split(0, 0, 1, 2), Leaf, Split(1, 1, 3, 4), Leaf, Split(0, 1, 5, 6), Leaf, Leaf >>

\* leaves at depth 2, 2 and 1
TreeC == << Split(1, 0, 1, 4), Split(0, 1, 2, 3), Leaf, Leaf, Leaf >>

\* fitted sklearn.ensemble.IsolationForest instances: the member trees and the
\* fitted decision offset (here on the mean number of nodes of a decision path)
Models == { [estimators_ |-> << TreeB >>, offset_ |-> 3],
            [estimators_ |-> << TreeC >>, offset_ |-> 3],
            [estimators_ |-> << TreeC, TreeB >>, offset_ |-> 3] }

Node(tree, id) == tree[id + 1]

IsLeaf(tree, id) == Node(tree, id).left = TREE_LEAF

NodeIds(tree) == 0 .. (Len(tree) - 1)

\* ------------------------------------------------------------ helpers
Abs(n) == IF n < 0 THEN -n ELSE n

RECURSIVE SumSeq(_)
SumSeq(s) == IF s = << >> THEN 0 ELSE Head(s) + SumSeq(Tail(s))

RECURSIVE MinSeq(_)
MinSeq(s) == IF Len(s) = 1 THEN s[1]
             ELSE LET m == MinSeq(Tail(s)) IN IF s[1] < m THEN s[1] ELSE m

RECURSIVE MaxSeq(_)
MaxSeq(s) == IF Len(s) = 1 THEN s[1]
             ELSE LET m == MaxSeq(Tail(s)) IN IF s[1] > m THEN s[1] ELSE m

RECURSIVE Concat(_)
Concat(ss) == IF ss = << >> THEN << >> ELSE Head(ss) \o Concat(Tail(ss))

\* sklearn Tree.decision_path: the node indicator row of x (1 at every node
\* x goes through, the root and the leaf it reaches included)
RECURSIVE Visits(_, _, _)
Visits(tree, x, id) ==
    IF IsLeaf(tree, id) THEN {id}
    ELSE LET n == Node(tree, id)
         IN {id} \cup Visits(tree, x, IF x[n.feature] <= n.threshold THEN n.left ELSE n.right)

decision_path(tree, x) == [id \in NodeIds(tree) |-> IF id \in Visits(tree, x, 0) THEN 1 ELSE 0]

\* the .sum() of an indicator row
RECURSIVE IndicatorSumUpTo(_, _)
IndicatorSumUpTo(row, id) == IF id < 0 THEN 0 ELSE row[id] + IndicatorSumUpTo(row, id - 1)

IndicatorSum(row) == IndicatorSumUpTo(row, Cardinality(DOMAIN row) - 1)

\* the .indices of an indicator row: ids of the non-zero entries, ascending
RECURSIVE IndicesFrom(_, _)
IndicesFrom(row, id) ==
    IF id >= Cardinality(DOMAIN row) THEN << >>
    ELSE (IF row[id] # 0 THEN << id >> ELSE << >>) \o IndicesFrom(row, id + 1)

Indices(row) == IndicesFrom(row, 0)

\* ------------------------------------------------ path extractor (tree.py)
\* get_leafs_from_tree: every root-to-leaf path, left subtree first, as the
\* sequence of (feature, threshold, direction) steps taken at internal nodes
RECURSIVE LeafsFrom(_, _, _)
LeafsFrom(tree, id, prefix) ==
    IF IsLeaf(tree, id) THEN << prefix >>
    ELSE LET n == Node(tree, id)
         IN LeafsFrom(tree, n.left, Append(prefix, [feature |-> n.feature, threshold |-> n.threshold, dir |-> "<="]))
            \o LeafsFrom(tree, n.right, Append(prefix, [feature |-> n.feature, threshold |-> n.threshold, dir |-> ">"]))

get_leafs_from_tree(tree) == LeafsFrom(tree, 0, << >>)

\* --------------------------------------------- adjustment scorer (tree.py)
StepAgrees(x, step) ==
    IF step.dir = "<=" THEN x[step.feature] <= step.threshold ELSE x[step.feature] > step.threshold

\* the sparse feature -> value mapping that redirects x along path; a feature
\* touched by several disagreeing steps keeps the value of the last one
RECURSIVE compute_adjustment(_, _, _)
compute_adjustment(x, path, adj) ==
    IF path = << >> THEN adj
    ELSE LET step == Head(path)
             v == IF step.dir = "<=" THEN step.threshold - 1 ELSE step.threshold + 1
             adj2 == IF StepAgrees(x, step) THEN adj
                     ELSE [f \in (DOMAIN adj) \cup {step.feature} |->
                              IF f = step.feature THEN v ELSE adj[f]]
         IN compute_adjustment(x, Tail(path), adj2)

EmptyAdjustment == [f \in {} |-> 0]

apply_adjustment(x, adj) == [f \in DOMAIN x |-> IF f \in DOMAIN adj THEN adj[f] ELSE x[f]]

\* a resolved regularizer applied to the difference of two vectors
RegCost(reg, x, z) ==
    LET d == [f \in DOMAIN x |-> Abs(x[f] - z[f])]
    IN CASE reg = "l1" -> d[0] + d[1]
         [] reg = "l2" -> d[0] * d[0] + d[1] * d[1]
         [] OTHER -> IF d[0] > d[1] THEN d[0] ELSE d[1]

\* stable insertion of e into a sequence sorted by ascending cost
RECURSIVE InsertByCost(_, _)
InsertByCost(e, s) ==
    IF s = << >> THEN << e >>
    ELSE IF e.cost < Head(s).cost THEN << e >> \o s
    ELSE << Head(s) >> \o InsertByCost(e, Tail(s))

RECURSIVE SortByCost(_)
SortByCost(s) ==
    IF s = << >> THEN << >>
    ELSE InsertByCost(s[Len(s)], SortByCost(SubSeq(s, 1, Len(s) - 1)))

score_adjustments(x, path_of_x, paths, reg) ==
    SortByCost([i \in 1 .. Len(paths) |->
        LET adj == compute_adjustment(x, paths[i], EmptyAdjustment)
        IN [cost |-> RegCost(reg, x, apply_adjustment(x, adj)), path |-> paths[i], adjustment |-> adj]])

\* ------------------------------------------------- isolation forest loss
\* a rational number num/den with den > 0
Rat(n, d) == [num |-> n, den |-> d]

RatEq(a, b) == a.num * b.den = b.num * a.den

RatLess(a, b) == a.num * b.den < b.num * a.den

\* np.mean of a non-empty list of integers
Mean(s) == Rat(SumSeq(s), Len(s))

\* variant: the sign of the target is left out
score_impl_unsigned(models, y_target, x) ==
    LET m == Mean([i \in 1 .. Len(models) |-> IndicatorSum(decision_path(models[i], x))])
    IN Rat(-1 * m.num, m.den)

\* IsolationForestCost.score_impl
score_impl(models, y_target, x) ==
    LET m == Mean([i \in 1 .. Len(models) |-> IndicatorSum(decision_path(models[i], x))])
    IN Rat(-1 * y_target * m.num, m.den)

\* IsolationForest.predict: +1 (inlier) when the decision paths are long
\* enough on average, -1 (outlier) otherwise
predict(model, x) ==
    LET m == Mean([i \in 1 .. Len(model.estimators_) |->
                     IndicatorSum(decision_path(model.estimators_[i], x))])
    IN IF m.num >= model.offset_ * m.den THEN 1 ELSE -1

\* ------------------------------------------------ initial-value generator
\* the target path length t: short paths for outliers, long ones otherwise
TargetLength(lengths, y_target) ==
    IF y_target = -1 THEN MinSeq(lengths) ELSE MaxSeq(lengths)

\* the filter on (length, path) pairs
KeepPath(len, t) == Abs(len - t) < 2

RECURSIVE SelectPaths(_, _)
SelectPaths(paths, t) ==
    IF paths = << >> THEN << >>
    ELSE (IF KeepPath(Len(Head(paths)), t) THEN << Head(paths) >> ELSE << >>)
         \o SelectPaths(Tail(paths), t)

\* the paths of one tree handed to the adjustment scorer
filtered_paths(tree, y_target) ==
    LET paths == get_leafs_from_tree(tree)
        t == TargetLength([i \in 1 .. Len(paths) |-> Len(paths[i])], y_target)
    IN SelectPaths(paths, t)

NoWhitelist == [none |-> TRUE, feats |-> {}]

Whitelist(S) == [none |-> FALSE, feats |-> S]

\* variant: the membership test is inverted
used_protected_inverted(x, cf, features_whitelist) ==
    LET d == [i \in DOMAIN x |-> x[i] - cf[i]]
    IN \E i \in DOMAIN d : i \in features_whitelist.feats /\ d[i] # 0

\* variant: a change of any coordinate counts
used_protected_any_change(x, cf, features_whitelist) ==
    LET d == [i \in DOMAIN x |-> x[i] - cf[i]]
    IN \E i \in DOMAIN d : d[i] # 0

used_protected_attributes(x, cf, features_whitelist) ==
    LET d == [i \in DOMAIN x |-> x[i] - cf[i]]
    IN \E i \in DOMAIN d : i \notin features_whitelist.feats /\ d[i] # 0

RECURSIVE DropProtected(_, _, _)
DropProtected(x, cfs, features_whitelist) ==
    IF cfs = << >> THEN << >>
    ELSE (IF used_protected_attributes(x, Head(cfs), features_whitelist) THEN << >> ELSE << Head(cfs) >>)
         \o DropProtected(x, Tail(cfs), features_whitelist)

\* the adjusted copies of x of one tree, before the whitelist filter
tree_counterfactuals(tree, x, y_target, reg) ==
    LET path_of_x == Indices(decision_path(tree, x))
        scored == score_adjustments(x, path_of_x, filtered_paths(tree, y_target), reg)
    IN [i \in 1 .. Len(scored) |-> apply_adjustment(x, scored[i].adjustment)]

compute_counterfactuals_isolationtree(tree, x, y_target, features_whitelist, reg) ==
    LET counterfactuals == tree_counterfactuals(tree, x, y_target, reg)
    IN IF features_whitelist.none THEN counterfactuals
       ELSE DropProtected(x, counterfactuals, features_whitelist)

compute_initial_values(model, x, y_target, features_whitelist, reg) ==
    << x >> \o Concat([i \in 1 .. Len(model.estimators_) |->
        compute_counterfactuals_isolationtree(model.estimators_[i], x, y_target, features_whitelist, reg)])

\* ------------------------------------------------------- the search loop
\* regularization arguments: the names "l1" and "l2", None, and an already
\* built CostFunction object
RegInputs == {"l1", "l2", "None", "CostFunction"}

IsStr(regularization) == regularization \in {"l1", "l2"}

IsCallable(regularization) == regularization = "CostFunction"

\* done arguments: None, or the predicate  lambda y: y == -1
DoneInputs == {"None", "is_outlier"}

CallPredicate(p, y) == p = "is_outlier" /\ y = -1

\* C arguments: a float, or a list of floats (strengths in hundredths)
Strength(i) == IF i = 1 THEN 100 ELSE IF i = 2 THEN 10 ELSE 1

CInputs == { [list |-> FALSE, scalar |-> Strength(1), values |-> << >>] }
           \cup { [list |-> TRUE, scalar |-> 0, values |-> [i \in 1 .. n |-> Strength(i)]] : n \in 0 .. MaxC }

WhitelistInputs == { NoWhitelist, Whitelist({0}), Whitelist({1}) }

\* the first statement of compute_counterfactual: the resolved regularizer,
\* or a TypeError
ResolveRegularization(regularization) ==
    IF IsStr(regularization) THEN [ok |-> TRUE, reg |-> regularization]
    ELSE IF ~IsCallable(regularization) THEN [ok |-> FALSE, reg |-> regularization]
    ELSE [ok |-> TRUE, reg |-> regularization]

\* done = done if done is not None else ... lambda y: y == y_target
ResolveDone(d) ==
    IF d # "None" THEN [default |-> FALSE, pred |-> d] ELSE [default |-> TRUE, pred |-> "None"]

\* variant: every prediction is accepted
AcceptsAnything(d, target, y) == TRUE

\* variant: the caller's predicate is ignored
AcceptsTargetOnly(d, target, y) == y = target

\* done(y_cf) == True
Accepts(d, target, y) == IF d.default THEN y = target ELSE CallPredicate(d.pred, y)

\* if not type(C) == list: C = [C]
NormalizeC(c) == IF c.list THEN c.values ELSE << c.scalar >>

\* variant: the loops are nested the other way round
EnumerationCOuter(nStarts, nC) ==
    [k \in 1 .. (nStarts * nC) |-> [start |-> ((k - 1) % nStarts) + 1, c |-> ((k - 1) \div nStarts) + 1]]

\* variant: the last pair is left out
EnumerationShort(nStarts, nC) ==
    [k \in 1 .. (nStarts * nC - 1) |-> [start |-> ((k - 1) \div nC) + 1, c |-> ((k - 1) % nC) + 1]]

\* the order of the optimizer attempts: for x0 in x_start: for c in C
Enumeration(nStarts, nC) ==
    [k \in 1 .. (nStarts * nC) |-> [start |-> ((k - 1) \div nC) + 1, c |-> ((k - 1) % nC) + 1]]

\* SklearnCounterfactual.wrap_input: the wrapper completes a vector of the
\* free (whitelisted) features with the protected features of the vector it
\* was built from
wrap_input(features_whitelist, x0) ==
    [base |-> x0, free |-> IF features_whitelist.none THEN DOMAIN x0 ELSE features_whitelist.feats \cap DOMAIN x0]

\* what the black-box minimizer may come back with, over the free features
OptimizerResults(input_wrapper) ==
    [input_wrapper.free -> Vals \cup {input_wrapper.base[f] : f \in input_wrapper.free}]

\* SklearnCounterfactual.compute_counterfactual_ex for the optimizer result z
compute_counterfactual_ex(model, x, input_wrapper, z) ==
    LET x_cf == [f \in DOMAIN x |-> IF f \in input_wrapper.free THEN z[f] ELSE input_wrapper.base[f]]
    IN [x_cf |-> x_cf, y_cf |-> predict(model, x_cf), delta |-> [f \in DOMAIN x |-> x_cf[f] - x[f]]]

\* IsolationForest.get_loss: the cost object over the member trees
get_loss(m, target) == [models |-> m.estimators_, y_target |-> target]

\* utils.desc_to_regcost: the named penalty on the deviation from x_ref
desc_to_regcost(desc, x_ref) == [kind |-> desc, ref |-> x_ref]

\* a CostFunction object built by the caller: a penalty for deviating from
\* the original input
CallerRegularizer(regularization, x_ref) == [kind |-> regularization, ref |-> x_ref]

\* utils.build_regularization_loss: an already built object is used as it is
build_regularization_loss(regularization, x_orig) == regularization

\* InputWrapper.extract_features_only of the vector the wrapper was built
\* from: the x_orig that wrap_input returns
extract_features_only(input_wrapper) == [f \in input_wrapper.free |-> input_wrapper.base[f]]

\* variant: the penalty is rebuilt around the x_orig it is handed
build_loss_around_seed(regularization, x_orig, target, c, m) ==
    [regularization |-> [kind |-> regularization.kind, ref |-> x_orig],
     loss |-> get_loss(m, target), C |-> c]

\* IsolationForestCounterfactual.build_loss: RegularizedCost(regularization, loss, C)
build_loss(regularization, x_orig, target, c, m) ==
    [regularization |-> build_regularization_loss(regularization, x_orig),
     loss |-> get_loss(m, target), C |-> c]

VARIABLES
    entry,              \* the callable that is running: "function" (isolationforest_generate_counterfactual)
                        \* or "method" (IsolationForestCounterfactual.compute_counterfactual)
    model, x, y_target, features_whitelist, regularization, C, done,   \* the arguments
    pc,                 \* position in the call
    reg,                \* the resolved regularizer
    x_start,            \* the starting points
    kept,               \* per tree, the leaf paths handed to the adjustment scorer
    accept,             \* the resolved acceptance predicate
    warned,             \* warn_if_already_done has warned
    Cs,                 \* the normalized C list
    k,                  \* position in the enumeration of (x0, c)
    attempts,           \* the optimizer invocations made so far
    probe, loss,        \* a point the optimizer evaluated the loss at, and the value it got
    result,             \* << >> or the returned (x_cf, y_cf, delta)
    error,              \* "" or the exception raised
    phases,             \* the phases of the call gone through so far, in order
    regularizer,        \* the regularizer object the loop hands to build_loss
    objectives          \* per optimizer invocation, the objective minimised and the seed

args == << model, x, y_target, features_whitelist, regularization, C, done >>

vars == << entry, model, x, y_target, features_whitelist, regularization, C, done,
           pc, reg, x_start, kept, accept, warned, Cs, k, attempts, probe, loss, result, error, phases,
           regularizer, objectives >>

Init ==
    /\ entry \in {"function", "method"}
    /\ model \in Models
    /\ x \in Vectors
    /\ y_target \in {-1, 1}
    /\ features_whitelist \in WhitelistInputs
    /\ regularization \in RegInputs
    /\ C \in CInputs
    /\ done \in DoneInputs
    /\ pc = "call"
    /\ reg = "None"
    /\ x_start = << >>
    /\ kept = << >>
    /\ accept = ResolveDone("None")
    /\ warned = FALSE
    /\ Cs = << >>
    /\ k = 1
    /\ attempts = << >>
    /\ probe = << >>
    /\ loss = << >>
    /\ result = << >>
    /\ error = ""
    /\ phases = << >>
    /\ regularizer = [kind |-> "None", ref |-> << >>]
    /\ objectives = << >>

\* the module-level function: it has no `done` parameter, so a call that
\* passes one is rejected by the interpreter; otherwise it calls the method
isolationforest_generate_counterfactual ==
    /\ pc = "call" /\ entry = "function"
    /\ IF done # "None"
       THEN pc' = "raised" /\ error' = "TypeError: unexpected argument 'done'" /\ entry' = entry
       ELSE pc' = "validate" /\ error' = error /\ entry' = "method"
    /\ UNCHANGED << args, reg, x_start, kept, accept, warned, Cs, k, attempts, probe, loss, result, phases, regularizer, objectives >>

\* a direct call of IsolationForestCounterfactual.compute_counterfactual
CallMethod ==
    /\ pc = "call" /\ entry = "method"
    /\ pc' = "validate"
    /\ UNCHANGED << entry, args, reg, x_start, kept, accept, warned, Cs, k, attempts, probe, loss, result, error, phases, regularizer, objectives >>

Validate ==
    /\ pc = "validate"
    /\ LET r == ResolveRegularization(regularization)
       IN IF r.ok
          THEN /\ pc' = "initial_values" /\ reg' = r.reg /\ error' = error
               /\ regularizer' = IF IsStr(regularization) THEN desc_to_regcost(regularization, x)
                                 ELSE CallerRegularizer(regularization, x)
          ELSE /\ pc' = "raised" /\ reg' = reg /\ error' = "TypeError: regularization"
               /\ regularizer' = regularizer
    /\ phases' = Append(phases, "validate")
    /\ UNCHANGED << entry, args, x_start, kept, accept, warned, Cs, k, attempts, probe, loss, result, objectives >>

ComputeInitialValues ==
    /\ pc = "initial_values"
    /\ x_start' = compute_initial_values(model, x, y_target, features_whitelist, reg)
    /\ kept' = [i \in 1 .. Len(model.estimators_) |-> filtered_paths(model.estimators_[i], y_target)]
    /\ pc' = "resolve_done"
    /\ phases' = Append(phases, "generate")
    /\ UNCHANGED << entry, args, reg, accept, warned, Cs, k, attempts, probe, loss, result, error, regularizer, objectives >>

\* variant: an input that already satisfies the predicate ends the call
WarnIfAlreadyDoneFatal ==
    /\ pc = "resolve_done"
    /\ accept' = ResolveDone(done)
    /\ warned' = Accepts(accept', y_target, predict(model, x))
    /\ IF warned'
       THEN pc' = "raised" /\ error' = "No counterfactual found"
       ELSE pc' = "normalize_C" /\ error' = error
    /\ phases' = Append(phases, "warn")
    /\ UNCHANGED << entry, args, reg, x_start, kept, Cs, k, attempts, probe, loss, result, regularizer, objectives >>

WarnIfAlreadyDone ==
    /\ pc = "resolve_done"
    /\ accept' = ResolveDone(done)
    /\ warned' = Accepts(accept', y_target, predict(model, x))
    /\ pc' = "normalize_C"
    /\ phases' = Append(phases, "warn")
    /\ UNCHANGED << entry, args, reg, x_start, kept, Cs, k, attempts, probe, loss, result, error, regularizer, objectives >>

NormalizeCList ==
    /\ pc = "normalize_C"
    /\ Cs' = NormalizeC(C)
    /\ k' = 1
    /\ pc' = "loop"
    /\ UNCHANGED << entry, args, reg, x_start, kept, accept, warned, attempts, probe, loss, result, error, phases, regularizer, objectives >>

\* one pass through the body of the inner loop
Attempt ==
    /\ pc = "loop"
    /\ LET order == Enumeration(Len(x_start), Len(Cs))
       IN /\ k <= Len(order)
          /\ LET x0 == x_start[order[k].start]
                 input_wrapper == wrap_input(features_whitelist, x0)
             IN \E z \in OptimizerResults(input_wrapper) :
                  LET r == compute_counterfactual_ex(model, x, input_wrapper, z)
                      x_orig == extract_features_only(input_wrapper)
                  IN /\ attempts' = Append(attempts, [start |-> order[k].start, c |-> order[k].c, y_cf |-> r.y_cf])
                     /\ objectives' = Append(objectives,
                            [objective |-> build_loss(regularizer, x_orig, y_target, Cs[order[k].c], model),
                             seed |-> x_orig])
                     /\ IF Accepts(accept, y_target, r.y_cf)
                        THEN pc' = "returned" /\ result' = << r >> /\ k' = k
                        ELSE pc' = "loop" /\ result' = result /\ k' = k + 1
    /\ UNCHANGED << entry, args, reg, x_start, kept, accept, warned, Cs, probe, loss, error, phases, regularizer >>

RaiseNoCounterfactual ==
    /\ pc = "loop"
    /\ k > Len(Enumeration(Len(x_start), Len(Cs)))
    /\ pc' = "raised"
    /\ error' = "No counterfactual found"
    /\ UNCHANGED << entry, args, reg, x_start, kept, accept, warned, Cs, k, attempts, probe, loss, result, phases, regularizer, objectives >>

Next ==
    \/ isolationforest_generate_counterfactual
    \/ CallMethod
    \/ Validate
    \/ ComputeInitialValues
    \/ WarnIfAlreadyDone
    \/ NormalizeCList
    \/ Attempt
    \/ RaiseNoCounterfactual

Spec == Init /\ [][Next]_vars

\* ---------------------------------------- the loss, as the optimizer uses it
LossInit ==
    /\ entry = "method"
    /\ model \in Models
    /\ x \in Vectors
    /\ y_target \in {-1, 1}
    /\ features_whitelist = NoWhitelist
    /\ regularization = "l1"
    /\ C = [list |-> FALSE, scalar |-> Strength(1), values |-> << >>]
    /\ done = "None"
    /\ pc = "loop"
    /\ reg = "l1"
    /\ x_start = << x >>
    /\ kept = << >>
    /\ accept = ResolveDone("None")
    /\ warned = FALSE
    /\ Cs = << Strength(1) >>
    /\ k = 1
    /\ attempts = << >>
    /\ probe = << >>
    /\ loss = << >>
    /\ result = << >>
    /\ error = ""
    /\ phases = << >>
    /\ regularizer = [kind |-> "None", ref |-> << >>]
    /\ objectives = << >>

\* the optimizer evaluates the loss at a point; the last two evaluations are kept
EvaluateLoss ==
    /\ pc = "loop"
    /\ \E z \in Vectors :
         LET cost == get_loss(model, y_target)
         IN /\ probe' = << z >> \o SubSeq(probe, 1, IF Len(probe) > 0 THEN 1 ELSE 0)
            /\ loss' = << score_impl(cost.models, cost.y_target, z) >> \o SubSeq(loss, 1, IF Len(loss) > 0 THEN 1 ELSE 0)
    /\ UNCHANGED << entry, args, pc, reg, x_start, kept, accept, warned, Cs, k, attempts, result, error, phases, regularizer, objectives >>

NextLoss == EvaluateLoss

SpecLoss == LossInit /\ [][NextLoss]_vars

\* ============================================================== properties
\* the caller's acceptance: done(y) when a predicate was passed, y == y_target otherwise
CallerAccepts(y) == IF done = "None" THEN y = y_target ELSE CallPredicate(done, y)

NoCounterfactual == pc = "raised" /\ error = "No counterfactual found"

AfterInitialValues == pc \in {"resolve_done", "normalize_C", "loop", "returned"} \/ NoCounterfactual

\* C1: a call that passes validation ends either by returning a result
\* whose y_cf the acceptance predicate accepts, or by raising "No
\* counterfactual found" with nothing returned; it never returns a rejected y_cf.
C1_ReturnsAcceptedOrRaises ==
    /\ pc = "returned" => Len(result) = 1 /\ CallerAccepts(result[1].y_cf) /\ error = ""
    /\ pc # "returned" => result = << >>
    /\ (pc = "raised" /\ x_start # << >>) => NoCounterfactual
    /\ pc = "loop" => k <= Len(x_start) * Len(Cs) + 1

C1_Witness ==
    /\ pc = "returned" /\ done = "None" /\ Len(attempts) >= 2
    /\ result[1].y_cf = y_target /\ result[1].x_cf # x

\* C2: no optimizer invocation follows an accepted attempt: only the last
\* attempt made can be an accepted one, the call has returned as soon as it
\* is, and the result returned is that attempt's.
C2_FirstAcceptedWins ==
    /\ \A i \in 1 .. Len(attempts) - 1 : ~CallerAccepts(attempts[i].y_cf)
    /\ (attempts # << >> /\ CallerAccepts(attempts[Len(attempts)].y_cf)) => pc = "returned"
    /\ pc = "returned" => /\ attempts # << >>
                          /\ CallerAccepts(attempts[Len(attempts)].y_cf)
                          /\ result[1].y_cf = attempts[Len(attempts)].y_cf

C2_Witness ==
    /\ pc = "returned" /\ done # "None"
    /\ Len(attempts) >= 2 /\ Len(attempts) < Len(x_start) * Len(Cs)
    /\ attempts[Len(attempts)].c < Len(Cs)

\* C3 (as claimed): a call with regularization=None does not end in a type error.
C3_NoneIsAccepted == regularization = "None" => error # "TypeError: regularization"

\* C4: with a whitelist, a returned result has delta[i] = 0 and
\* x_cf[i] = x[i] at every index i outside the whitelist.
C4_ProtectedUnchanged ==
    (pc = "returned" /\ ~features_whitelist.none) =>
        \A i \in DOMAIN x : i \notin features_whitelist.feats =>
            result[1].delta[i] = 0 /\ result[1].x_cf[i] = x[i]

C4_Witness ==
    /\ pc = "returned" /\ ~features_whitelist.none
    /\ attempts[Len(attempts)].start > 1
    /\ x_start[attempts[Len(attempts)].start] # x
    /\ result[1].x_cf # x

\* C5 (as claimed): every starting point is attempted with one C value
\* before any starting point is attempted with the next C value.
C5_AllStartsBeforeNextC ==
    \A i, j \in 1 .. Len(attempts) : i < j => attempts[i].c <= attempts[j].c

\* C5 (amended): every C value is attempted on one starting point, in the
\* given order, before the next starting point is attempted.
C5_AllCsBeforeNextStart ==
    \A i, j \in 1 .. Len(attempts) : i < j =>
        \/ attempts[i].start < attempts[j].start
        \/ attempts[i].start = attempts[j].start /\ attempts[i].c < attempts[j].c

C5_Witness ==
    /\ Len(Cs) >= 2 /\ Len(attempts) >= 3
    /\ attempts[2] = [start |-> 1, c |-> 2, y_cf |-> attempts[2].y_cf]
    /\ attempts[3].start = 2 /\ attempts[3].c = 1

\* C6: "No counterfactual found" is raised only when every pair (starting
\* point, C value) has been attempted exactly once and none was accepted;
\* nothing is returned, and there were |x_start| * |C| optimizer invocations.
C6_RaisesAfterFullEnumeration ==
    NoCounterfactual =>
        /\ Len(attempts) = Len(x_start) * Len(Cs)
        /\ \A s \in 1 .. Len(x_start) : \A c \in 1 .. Len(Cs) :
               Cardinality({i \in 1 .. Len(attempts) : attempts[i].start = s /\ attempts[i].c = c}) = 1
        /\ \A i \in 1 .. Len(attempts) : ~CallerAccepts(attempts[i].y_cf)
        /\ result = << >>

C6_Witness ==
    /\ NoCounterfactual
    /\ Len(x_start) >= 2 /\ Len(Cs) >= 2 /\ Len(attempts) >= 4

\* C7 (as claimed): the public entry point accepts a caller-supplied
\* acceptance predicate, so a call through it that passes one is not rejected.
C7_EntryPointTakesPredicate == (entry = "function" /\ done # "None") => pc # "raised"

\* two vectors agree at every index outside the whitelist
AgreeOutside(a, b, feats) == \A i \in DOMAIN a : i \notin feats => a[i] = b[i]

RECURSIVE KeepAgreeing(_, _, _)
KeepAgreeing(cfs, a, feats) ==
    IF cfs = << >> THEN << >>
    ELSE (IF AgreeOutside(Head(cfs), a, feats) THEN << Head(cfs) >> ELSE << >>) \o KeepAgreeing(Tail(cfs), a, feats)

\* C8: with a whitelist, the starting points are x followed, in tree order,
\* by exactly those tree candidates that equal x at every index outside the
\* whitelist; so every starting point equals x there.
C8_StartsRespectWhitelist ==
    (AfterInitialValues /\ ~features_whitelist.none) =>
        /\ x_start[1] = x
        /\ \A j \in 1 .. Len(x_start) : AgreeOutside(x_start[j], x, features_whitelist.feats)
        /\ x_start = << x >> \o Concat([t \in 1 .. Len(model.estimators_) |->
               KeepAgreeing(tree_counterfactuals(model.estimators_[t], x, y_target, reg), x, features_whitelist.feats)])

RawCandidates ==
    Concat([t \in 1 .. Len(model.estimators_) |-> tree_counterfactuals(model.estimators_[t], x, y_target, reg)])

C8_Witness ==
    /\ AfterInitialValues /\ ~features_whitelist.none
    /\ Len(x_start) < 1 + Len(RawCandidates)
    /\ \E j \in 2 .. Len(x_start) : x_start[j] # x
    /\ \E j \in 2 .. Len(x_start) : x_start[j] = x

InSeq(e, s) == \E i \in 1 .. Len(s) : s[i] = e

\* C9 (as claimed): a leaf path is handed to the adjustment scorer if and
\* only if its length is within absolute distance 2 of the target length t
\* (the minimum length for target -1, the maximum otherwise).
C9_KeptIffWithinTwo ==
    AfterInitialValues =>
        \A t \in 1 .. Len(model.estimators_) :
            LET paths == get_leafs_from_tree(model.estimators_[t])
                lens == {Len(paths[i]) : i \in 1 .. Len(paths)}
                target == IF y_target = -1
                          THEN CHOOSE n \in lens : \A m \in lens : n <= m
                          ELSE CHOOSE n \in lens : \A m \in lens : n >= m
            IN \A i \in 1 .. Len(paths) :
                   InSeq(paths[i], kept[t]) <=> Abs(Len(paths[i]) - target) <= 2

\* the number of edges x traverses from the root of a tree to its leaf
RECURSIVE EdgesFrom(_, _, _)
EdgesFrom(tree, z, id) ==
    IF IsLeaf(tree, id) THEN 0
    ELSE LET n == Node(tree, id)
         IN 1 + EdgesFrom(tree, z, IF z[n.feature] <= n.threshold THEN n.left ELSE n.right)

TotalEdges(z) == SumSeq([t \in 1 .. Len(model.estimators_) |-> EdgesFrom(model.estimators_[t], z, 0)])

NumTrees == Len(model.estimators_)

\* C10 (as claimed): the loss is -y times the mean over the trees of the
\* number of edges x traverses from the root to its leaf.
C10_LossIsMeanEdges ==
    \A i \in 1 .. Len(loss) : RatEq(loss[i], Rat(-1 * y_target * TotalEdges(probe[i]), NumTrees))

\* C10 (amended): the loss is -y times the mean over the trees of the number
\* of nodes on x's decision path, the root and the leaf included (edges + 1);
\* for target +1 a larger mean path length gives a strictly smaller loss, for
\* target -1 a strictly larger one.
C10_LossIsMeanNodes ==
    /\ \A i \in 1 .. Len(loss) :
           RatEq(loss[i], Rat(-1 * y_target * (TotalEdges(probe[i]) + NumTrees), NumTrees))
    /\ \A i, j \in 1 .. Len(loss) :
           TotalEdges(probe[i]) > TotalEdges(probe[j]) =>
               IF y_target = 1 THEN RatLess(loss[i], loss[j]) ELSE RatLess(loss[j], loss[i])

C10_Witness ==
    /\ Len(loss) = 2 /\ NumTrees = 2 /\ y_target = -1
    /\ TotalEdges(probe[1]) > TotalEdges(probe[2])
    /\ RatLess(loss[2], loss[1])

\* position of a phase in the phases gone through, 0 when it was not
PhaseIndex(p) == IF \E i \in 1 .. Len(phases) : phases[i] = p
                 THEN CHOOSE i \in 1 .. Len(phases) : phases[i] = p
                 ELSE 0

IsPrefix(s, t) == Len(s) <= Len(t) /\ \A i \in 1 .. Len(s) : s[i] = t[i]

\* C11 (as claimed): the phases go Validate, Warn-if-already-satisfied,
\* Generate candidates, attempts: whenever the already-satisfied check is
\* made, no candidate starting point has been generated yet.
C11_WarnBeforeGenerate ==
    /\ IsPrefix(phases, << "validate", "warn", "generate" >>)
    /\ attempts # << >> => phases = << "validate", "warn", "generate" >>

\* C11 (amended): the phases go Validate, Generate candidates,
\* Warn-if-already-satisfied, attempts: the already-satisfied check is made
\* after the starting points were generated and before any attempt, and a
\* positive check only warns, the search still goes through its attempts.
C11_GenerateBeforeWarn ==
    /\ IsPrefix(phases, << "validate", "generate", "warn" >>)
    /\ attempts # << >> => phases = << "validate", "generate", "warn" >>
    /\ PhaseIndex("warn") = 0 => ~warned /\ attempts = << >>
    /\ PhaseIndex("generate") = 0 <=> x_start = << >>
    /\ (warned /\ pc = "raised") =>
           NoCounterfactual /\ Len(attempts) = Len(x_start) * Len(NormalizeC(C))
    /\ (warned /\ pc = "returned") => attempts # << >>

C11_Witness ==
    /\ warned /\ phases = << "validate", "generate", "warn" >>
    /\ Len(x_start) >= 2 /\ Len(attempts) >= 2
    /\ pc = "returned"

\* C12: in every optimizer attempt, whatever the starting point and the C
\* value, the regularization term of the objective measures the deviation
\* from the original input x; the starting point only seeds the optimizer.
C12_RegularizesAroundOriginal ==
    /\ Len(objectives) = Len(attempts)
    /\ \A i \in 1 .. Len(objectives) :
           LET x0 == x_start[attempts[i].start]
               free == IF features_whitelist.none THEN DOMAIN x ELSE features_whitelist.feats
           IN /\ objectives[i].objective.regularization.ref = x
              /\ objectives[i].objective.regularization.kind = regularization
              /\ objectives[i].objective.C = Cs[attempts[i].c]
              /\ DOMAIN objectives[i].seed = free
              /\ \A f \in free : objectives[i].seed[f] = x0[f]

C12_Witness ==
    \E i \in 1 .. Len(objectives) :
        /\ attempts[i].start > 1 /\ attempts[i].c = 2
        /\ x_start[attempts[i].start] # x
        /\ objectives[i].seed # x
        /\ objectives[i].objective.regularization.ref = x

====
